---- MODULE Spec2Model ----
(***************************************************************************)
(* Model of the elementary CLI server (rs/cli/src/main.rs): the graph     *)
(* reconciler RuntimeWrapper::reconcile and the per-connection message    *)
(* loop accept_connection that drives it; and of the Runtime of the       *)
(* elementary library (rs/elementary/src/lib.rs) with its shared resource *)
(* map.                                                                    *)
(*                                                                         *)
(* Every per-connection value (the RuntimeWrapper, the locals of the      *)
(* message loop and of reconcile) is a sequence indexed by the            *)
(* connection, so a specification fixes the number of connections in its  *)
(* initial state.                                                          *)
(***************************************************************************)
EXTENDS Integers, Sequences, FiniteSets, TLC

(***************************************************************************)
(* Bounds of the model.                                                    *)
(***************************************************************************)
\* node hashes are drawn from 1..MaxId
MaxId == 3
\* most node occurrences in one directive of a running session
MaxNodes == 2
\* most node occurrences in the first directive of a fresh session
MaxNodesFresh == 4
\* most directives carrying a graph that one connection receives
MaxCalls == 2

Ids == 1..MaxId

(***************************************************************************)
(* The data model: NodeRepr, ShallowNodeRepr, Directive.                   *)
(***************************************************************************)

\* kind, props and output_channel of a NodeRepr, as a client may send them.
\* props is a serde_json::Map: the sequence of its (name, value) entries in
\* the order the map iterates them (by key).
Contents ==
  { [kind |-> "sine", props |-> << <<"freq", 440>> >>, output_channel |-> 0],
    [kind |-> "gain", props |-> << <<"freq", 220>>, <<"gain", 1>> >>,
     output_channel |-> 1] }

NodeRepr(h, c, ch) ==
  [hash |-> h, kind |-> c.kind, props |-> c.props,
   output_channel |-> c.output_channel, children |-> ch]

RECURSIVE Trees(_)
RECURSIVE Forests(_)
\* the NodeRepr values with exactly n node occurrences
Trees(n) ==
  IF n = 0 THEN {}
  ELSE { NodeRepr(h, c, ch) : h \in Ids, c \in Contents, ch \in Forests(n - 1) }
\* the Vec<NodeRepr> values with exactly n node occurrences
Forests(n) ==
  IF n = 0 THEN { <<>> }
  ELSE UNION { { <<t>> \o f : t \in Trees(k), f \in Forests(n - k) } : k \in 1..n }

\* Directive.graph = Some(roots), for a directive of at most n node occurrences
GraphsUpTo(n) == UNION { Forests(k) : k \in 0..n }

Graphs == GraphsUpTo(MaxNodes)
FreshGraphs == GraphsUpTo(MaxNodesFresh)

RECURSIVE Size(_)
\* number of node occurrences of a Vec<NodeRepr>
Size(nodes) ==
  IF nodes = <<>> THEN 0
  ELSE 1 + Size(Head(nodes).children) + Size(Tail(nodes))

RECURSIVE Occurrences(_)
\* every NodeRepr of a Vec<NodeRepr>, at any depth
Occurrences(nodes) ==
  IF nodes = <<>> THEN {}
  ELSE {Head(nodes)} \cup Occurrences(Head(nodes).children)
         \cup Occurrences(Tail(nodes))

\* node.children.iter().map(|n| n.hash).collect() and roots.iter().map(|n| n.hash)
Hashes(nodes) == [i \in 1..Len(nodes) |-> nodes[i].hash]

shallow_clone(node) ==
  [hash |-> node.hash, kind |-> node.kind, props |-> node.props,
   output_channel |-> node.output_channel, children |-> Hashes(node.children)]

(***************************************************************************)
(* The instructions reconcile emits, as the json! arrays of the source.    *)
(***************************************************************************)
CREATE == 0
APPEND_CHILD == 2
SET_PROPERTY == 3
ACTIVATE_ROOTS == 4
COMMIT == 5

CreateNode(next) == << <<CREATE, next.hash, next.kind>> >>

\* an APPEND_CHILD that carries the parent's output channel
AppendChildOwnChannel(next) ==
  [i \in 1..Len(next.children) |->
     <<APPEND_CHILD, next.hash, next.children[i].hash, next.output_channel>>]

AppendChild(next) ==
  [i \in 1..Len(next.children) |->
     <<APPEND_CHILD, next.hash, next.children[i].hash,
       next.children[i].output_channel>>]

Props(next) ==
  [i \in 1..Len(next.props) |->
     <<SET_PROPERTY, next.hash, next.props[i][1], next.props[i][2]>>]

\* an ACTIVATE_ROOTS that collects the root hashes into an ordered set
ActivateRootsSet(rs) ==
  LET ids == {rs[i].hash : i \in 1..Len(rs)}
  IN <<ACTIVATE_ROOTS,
       [i \in 1..Cardinality(ids) |->
          CHOOSE h \in ids : Cardinality({k \in ids : k < h}) = i - 1]>>

ActivateRoots(rs) == <<ACTIVATE_ROOTS, Hashes(rs)>>

Commit == <<COMMIT>>

\* the comparator key of the final sort: a[0].as_i64()
SortKey(a) == a[1]

RECURSIVE Flatten(_)
\* the concatenation of a sequence of sequences
Flatten(ss) == IF ss = <<>> THEN <<>> ELSE Head(ss) \o Flatten(Tail(ss))

\* an unstable sort: the elements of one key come out in reverse
EqualRunReversed(seq, k) ==
  LET Is(e) == SortKey(e) = k
      run == SelectSeq(seq, Is)
  IN [i \in 1..Len(run) |-> run[Len(run) + 1 - i]]

\* the elements of seq whose key is k, in the order a stable sort leaves
\* them: the order they have in seq
EqualRun(seq, k) ==
  LET Is(e) == SortKey(e) = k
  IN SelectSeq(seq, Is)

\* a reconcile that returns the instructions in the order it pushed them
sort_by_skipped(seq) == seq

\* Vec::sort_by, a stable sort, under the comparator on SortKey: the runs of
\* equal keys, by ascending key
sort_by(seq) ==
  Flatten([k \in 1..(COMMIT - CREATE + 1) |-> EqualRun(seq, CREATE + k - 1)])

(***************************************************************************)
(* node_map: BTreeMap<i32, ShallowNodeRepr>                                *)
(***************************************************************************)
EmptyMap == [h \in {} |-> {}]

\* a mount check that finds no hash mounted
contains_key_never(m, h) == FALSE

contains_key(m, h) == h \in DOMAIN m

\* an insert that leaves the map as it is
insert_dropped(m, h, v) == m

insert(m, h, v) == [k \in DOMAIN m \cup {h} |-> IF k = h THEN v ELSE m[k]]

(***************************************************************************)
(* visited: HashSet<i32> and queue: VecDeque<&NodeRepr>                    *)
(***************************************************************************)
\* a visited check that finds no hash visited
contains_never(v, h) == FALSE

contains(v, h) == h \in v

\* a loop that reads the front of the queue without removing it
pop_front_kept(q) == q

\* what is left of the queue after queue.pop_front()
pop_front(q) == Tail(q)

(***************************************************************************)
(* State.                                                                  *)
(***************************************************************************)
VARIABLES
  pc,            \* where each connection's task stands
  node_map,      \* RuntimeWrapper.node_map
  lock,          \* RuntimeWrapper.runtime: whether its Mutex is held
  msg,           \* the inbound message being handled
  roots,         \* directive.graph of the message that last carried one
  visited,       \* reconcile: visited
  queue,         \* reconcile: queue
  instructions,  \* reconcile: instructions, then the batch it returned
  submitted,     \* the batch last passed to apply_instructions
  result,        \* the status apply_instructions last returned on the connection
  sent,          \* the message last written to the peer
  applies,       \* apply_instructions calls since the last message was read
  replies,       \* messages written to the peer since the last message was read
  repeat,        \* whether roots equals the graph calls just before
  prev_ids,      \* hashes of the roots calls just before
  calls,         \* reconcile calls made on this connection so far
  processed,     \* the nodes reconcile took past its visited check, in order
  created,       \* per hash, the CREATEs in the batches submitted so far
  shared_resource_map,  \* lib.rs: the resources of the FloatRuntime of a Runtime
  stored,        \* lib.rs: what update_shared_resource_map last returned
  keys,          \* lib.rs: what get_shared_resources_map_keys last returned
  history        \* lib.rs: the calls made on the Runtime, in order

\* the state of the elementary library, which the server does not use
lib == <<shared_resource_map, stored, keys, history>>

\* the state of the connections of the server
server ==
  <<pc, node_map, lock, msg, roots, visited, queue, instructions, submitted,
    result, sent, applies, replies, repeat, prev_ids, calls, processed,
    created>>

vars ==
  <<pc, node_map, lock, msg, roots, visited, queue, instructions, submitted,
    result, sent, applies, replies, repeat, prev_ids, calls, processed,
    created, shared_resource_map, stored, keys, history>>

Conns == DOMAIN pc

\* the status codes apply_instructions may return: 0 is success
StatusCodes == {0, 1}

\* the state of n connections right after accept_connection built their
\* RuntimeWrapper and split the stream
Accepted(n) ==
  /\ pc = [s \in 1..n |-> "read"]
  /\ node_map = [s \in 1..n |-> EmptyMap]
  /\ lock = [s \in 1..n |-> FALSE]
  /\ msg = [s \in 1..n |-> "none"]
  /\ roots = [s \in 1..n |-> <<>>]
  /\ visited = [s \in 1..n |-> {}]
  /\ queue = [s \in 1..n |-> <<>>]
  /\ instructions = [s \in 1..n |-> <<>>]
  /\ submitted = [s \in 1..n |-> <<>>]
  /\ result = [s \in 1..n |-> 0]
  /\ sent = [s \in 1..n |-> "none"]
  /\ applies = [s \in 1..n |-> 0]
  /\ replies = [s \in 1..n |-> 0]
  /\ repeat = [s \in 1..n |-> FALSE]
  /\ prev_ids = [s \in 1..n |-> <<>>]
  /\ calls = [s \in 1..n |-> 0]
  /\ processed = [s \in 1..n |-> <<>>]
  /\ created = [s \in 1..n |-> [h \in Ids |-> 0]]

\* make_float_runtime: a runtime that holds no resource
make_float_runtime == [n \in {} |-> <<>>]

\* Runtime::new, before any call on the Runtime
RuntimeNew ==
  /\ shared_resource_map = make_float_runtime
  /\ stored = FALSE
  /\ keys = {}
  /\ history = <<>>

Init == Accepted(1) /\ RuntimeNew

(***************************************************************************)
(* accept_connection: the message loop.                                    *)
(***************************************************************************)

\* read.try_next() yields a text message whose directive carries a graph;
\* reconcile starts on it: visited, queue and instructions are built and the
\* roots are queued
ReceiveGraph(s, graphs, most) ==
  /\ pc[s] = "read"
  /\ calls[s] < most
  /\ \E g \in graphs :
       /\ roots' = [roots EXCEPT ![s] = g]
       /\ queue' = [queue EXCEPT ![s] = g]
       /\ repeat' = [repeat EXCEPT ![s] = (calls[s] > 0 /\ g = roots[s])]
  /\ prev_ids' = [prev_ids EXCEPT ![s] = Hashes(roots[s])]
  /\ calls' = [calls EXCEPT ![s] = @ + 1]
  /\ msg' = [msg EXCEPT ![s] = "graph"]
  /\ visited' = [visited EXCEPT ![s] = {}]
  /\ instructions' = [instructions EXCEPT ![s] = <<>>]
  /\ processed' = [processed EXCEPT ![s] = <<>>]
  /\ applies' = [applies EXCEPT ![s] = 0]
  /\ replies' = [replies EXCEPT ![s] = 0]
  /\ submitted' = [submitted EXCEPT ![s] = <<>>]
  /\ sent' = [sent EXCEPT ![s] = "none"]
  /\ pc' = [pc EXCEPT ![s] = "loop"]
  /\ UNCHANGED <<node_map, lock, result>>
  /\ UNCHANGED created
  /\ UNCHANGED lib

\* Option::None
None == "None"

\* texts of a client that carry no graph: one that is no JSON, one that is
\* JSON of another shape, a directive without the graph field, a directive
\* whose graph is null
Texts == {"garbage", "[1]", "{}", "{graph:null}"}

\* serde_json::from_str::<Directive> on a text of Texts
from_str(text) ==
  IF text \in {"{}", "{graph:null}"}
  THEN [ok |-> TRUE, value |-> [graph |-> None]]
  ELSE [ok |-> FALSE, value |-> None]

\* Result::unwrap_or
unwrap_or(r, default) == IF r.ok THEN r.value ELSE default

\* a message loop in which a text that fails to parse ends the task, as
\* Result::unwrap would
ReceiveTextUnwrapped(s) ==
  /\ pc[s] = "read"
  /\ \E text \in Texts :
       /\ msg' = [msg EXCEPT ![s] = text]
       /\ pc' = [pc EXCEPT ![s] = IF from_str(text).ok THEN "echo" ELSE "panicked"]
  /\ applies' = [applies EXCEPT ![s] = 0]
  /\ replies' = [replies EXCEPT ![s] = 0]
  /\ submitted' = [submitted EXCEPT ![s] = <<>>]
  /\ sent' = [sent EXCEPT ![s] = "none"]
  /\ UNCHANGED <<node_map, lock, roots, visited, queue, instructions,
                 result, repeat, prev_ids, calls, processed>>
  /\ UNCHANGED created
  /\ UNCHANGED lib

\* a text message whose directive carries no graph, as parsed or because
\* the parse failed: nothing is reconciled and the message goes to the echo
ReceiveText(s) ==
  /\ pc[s] = "read"
  /\ \E text \in Texts :
       /\ unwrap_or(from_str(text), [graph |-> None]).graph = None
       /\ msg' = [msg EXCEPT ![s] = text]
  /\ applies' = [applies EXCEPT ![s] = 0]
  /\ replies' = [replies EXCEPT ![s] = 0]
  /\ submitted' = [submitted EXCEPT ![s] = <<>>]
  /\ sent' = [sent EXCEPT ![s] = "none"]
  /\ pc' = [pc EXCEPT ![s] = "echo"]
  /\ UNCHANGED <<node_map, lock, roots, visited, queue, instructions,
                 result, repeat, prev_ids, calls, processed>>
  /\ UNCHANGED created
  /\ UNCHANGED lib

\* a message for which msg.to_text() is an Err
ReceiveNonText(s) ==
  /\ pc[s] = "read"
  /\ msg' = [msg EXCEPT ![s] = "nontext"]
  /\ applies' = [applies EXCEPT ![s] = 0]
  /\ replies' = [replies EXCEPT ![s] = 0]
  /\ submitted' = [submitted EXCEPT ![s] = <<>>]
  /\ sent' = [sent EXCEPT ![s] = "none"]
  /\ pc' = [pc EXCEPT ![s] = "reject"]
  /\ UNCHANGED <<node_map, lock, roots, visited, queue, instructions,
                 result, repeat, prev_ids, calls, processed>>
  /\ UNCHANGED created
  /\ UNCHANGED lib

\* read.try_next() yields Ok(None), the stream is over: the if-let does not
\* match and the while loop polls the stream again, which is over for good
ReceiveNone(s) ==
  /\ pc[s] \in {"read", "ended"}
  /\ pc' = [pc EXCEPT ![s] = "ended"]
  /\ UNCHANGED <<node_map, lock, msg, roots, visited, queue, instructions,
                 submitted, result, sent, applies, replies, repeat, prev_ids,
                 calls, processed>>
  /\ UNCHANGED created
  /\ UNCHANGED lib

\* read.try_next() yields Err: the while-let ends the loop
ReceiveErr(s) ==
  /\ pc[s] = "read"
  /\ pc' = [pc EXCEPT ![s] = "closed"]
  /\ UNCHANGED <<node_map, lock, msg, roots, visited, queue, instructions,
                 submitted, result, sent, applies, replies, repeat, prev_ids,
                 calls, processed>>
  /\ UNCHANGED created
  /\ UNCHANGED lib

(***************************************************************************)
(* RuntimeWrapper::reconcile                                               *)
(***************************************************************************)

\* a loop whose node_map is one table of the process
VisitGlobalTable(s) ==
  /\ pc[s] = "loop"
  /\ queue[s] # <<>>
  /\ LET next == Head(queue[s])
         popped == pop_front(queue[s])
     IN IF contains(visited[s], next.hash)
        THEN /\ queue' = [queue EXCEPT ![s] = popped]
             /\ UNCHANGED <<node_map, instructions, visited, processed>>
        ELSE LET mounted == contains_key(node_map[s], next.hash)
                 mount == IF mounted THEN <<>>
                          ELSE CreateNode(next) \o AppendChild(next)
             IN /\ instructions' =
                     [instructions EXCEPT ![s] = @ \o mount \o Props(next)]
                /\ node_map' =
                     [t \in Conns |->
                        IF mounted THEN node_map[t]
                        ELSE insert(node_map[t], next.hash, shallow_clone(next))]
                /\ queue' = [queue EXCEPT ![s] = popped \o next.children]
                /\ visited' = [visited EXCEPT ![s] = @ \cup {next.hash}]
                /\ processed' = [processed EXCEPT ![s] = Append(@, next)]
  /\ UNCHANGED <<pc, lock, msg, roots, submitted, result, sent, applies,
                 replies, repeat, prev_ids, calls>>
  /\ UNCHANGED created
  /\ UNCHANGED lib

\* a loop that does not descend below a node that is mounted
VisitSkipsMounted(s) ==
  /\ pc[s] = "loop"
  /\ queue[s] # <<>>
  /\ LET next == Head(queue[s])
         popped == pop_front(queue[s])
     IN IF contains(visited[s], next.hash)
        THEN /\ queue' = [queue EXCEPT ![s] = popped]
             /\ UNCHANGED <<node_map, instructions, visited, processed>>
        ELSE LET mounted == contains_key(node_map[s], next.hash)
                 mount == IF mounted THEN <<>>
                          ELSE CreateNode(next) \o AppendChild(next)
             IN /\ instructions' =
                     [instructions EXCEPT ![s] = @ \o mount \o Props(next)]
                /\ node_map' =
                     [node_map EXCEPT ![s] =
                        IF mounted THEN @
                        ELSE insert(@, next.hash, shallow_clone(next))]
                /\ queue' =
                     [queue EXCEPT ![s] =
                        IF mounted THEN popped ELSE popped \o next.children]
                /\ visited' = [visited EXCEPT ![s] = @ \cup {next.hash}]
                /\ processed' = [processed EXCEPT ![s] = Append(@, next)]
  /\ UNCHANGED <<pc, lock, msg, roots, submitted, result, sent, applies,
                 replies, repeat, prev_ids, calls>>
  /\ UNCHANGED created
  /\ UNCHANGED lib

\* a loop that skips a visited hash but still queues the children of the
\* node that carries it
VisitKeepsSubtree(s) ==
  /\ pc[s] = "loop"
  /\ queue[s] # <<>>
  /\ LET next == Head(queue[s])
         popped == pop_front(queue[s])
     IN IF contains(visited[s], next.hash)
        THEN /\ queue' = [queue EXCEPT ![s] = popped \o next.children]
             /\ UNCHANGED <<node_map, instructions, visited, processed>>
        ELSE LET mounted == contains_key(node_map[s], next.hash)
                 mount == IF mounted THEN <<>>
                          ELSE CreateNode(next) \o AppendChild(next)
             IN /\ instructions' =
                     [instructions EXCEPT ![s] = @ \o mount \o Props(next)]
                /\ node_map' =
                     [node_map EXCEPT ![s] =
                        IF mounted THEN @
                        ELSE insert(@, next.hash, shallow_clone(next))]
                /\ queue' = [queue EXCEPT ![s] = popped \o next.children]
                /\ visited' = [visited EXCEPT ![s] = @ \cup {next.hash}]
                /\ processed' = [processed EXCEPT ![s] = Append(@, next)]
  /\ UNCHANGED <<pc, lock, msg, roots, submitted, result, sent, applies,
                 replies, repeat, prev_ids, calls>>
  /\ UNCHANGED created
  /\ UNCHANGED lib

\* one iteration of `while !queue.is_empty()`
Visit(s) ==
  /\ pc[s] = "loop"
  /\ queue[s] # <<>>
  /\ LET next == Head(queue[s])
         popped == pop_front(queue[s])
     IN IF contains(visited[s], next.hash)
        THEN /\ queue' = [queue EXCEPT ![s] = popped]
             /\ UNCHANGED <<node_map, instructions, visited, processed>>
        ELSE LET mounted == contains_key(node_map[s], next.hash)
                 mount == IF mounted THEN <<>>
                          ELSE CreateNode(next) \o AppendChild(next)
             IN /\ instructions' =
                     [instructions EXCEPT ![s] = @ \o mount \o Props(next)]
                /\ node_map' =
                     [node_map EXCEPT ![s] =
                        IF mounted THEN @
                        ELSE insert(@, next.hash, shallow_clone(next))]
                /\ queue' = [queue EXCEPT ![s] = popped \o next.children]
                /\ visited' = [visited EXCEPT ![s] = @ \cup {next.hash}]
                /\ processed' = [processed EXCEPT ![s] = Append(@, next)]
  /\ UNCHANGED <<pc, lock, msg, roots, submitted, result, sent, applies,
                 replies, repeat, prev_ids, calls>>
  /\ UNCHANGED created
  /\ UNCHANGED lib

\* a message loop that echoes the message without applying the batch
FinishUnapplied(s) ==
  /\ pc[s] = "loop"
  /\ queue[s] = <<>>
  /\ instructions' =
       [instructions EXCEPT ![s] =
          sort_by(@ \o <<ActivateRoots(roots[s]), Commit>>)]
  /\ pc' = [pc EXCEPT ![s] = "echo"]
  /\ UNCHANGED <<node_map, lock, msg, roots, visited, queue, submitted,
                 result, sent, applies, replies, repeat, prev_ids, calls,
                 processed>>
  /\ UNCHANGED created
  /\ UNCHANGED lib

\* the queue is empty: activate roots, commit, sort, return the batch
Finish(s) ==
  /\ pc[s] = "loop"
  /\ queue[s] = <<>>
  /\ instructions' =
       [instructions EXCEPT ![s] =
          sort_by(@ \o <<ActivateRoots(roots[s]), Commit>>)]
  /\ pc' = [pc EXCEPT ![s] = "lock"]
  /\ UNCHANGED <<node_map, lock, msg, roots, visited, queue, submitted,
                 result, sent, applies, replies, repeat, prev_ids, calls, processed>>
  /\ UNCHANGED created
  /\ UNCHANGED lib

(***************************************************************************)
(* accept_connection: apply and reply.                                     *)
(***************************************************************************)

\* the CREATE counts after batch b went to apply_instructions
Submit(count, b) ==
  [h \in Ids |->
     count[h] + Cardinality({i \in 1..Len(b) : b[i][1] = CREATE /\ b[i][2] = h})]

\* runtime.runtime.lock().unwrap()
Lock(s) ==
  /\ pc[s] = "lock"
  /\ ~lock[s]
  /\ lock' = [lock EXCEPT ![s] = TRUE]
  /\ pc' = [pc EXCEPT ![s] = "apply"]
  /\ UNCHANGED <<node_map, msg, roots, visited, queue, instructions,
                 submitted, result, sent, applies, replies, repeat, prev_ids,
                 calls, processed>>
  /\ UNCHANGED created
  /\ UNCHANGED lib

\* an apply whose guard is bound to a name and so lives on after the call
ApplyLockKept(s) ==
  /\ pc[s] = "apply"
  /\ submitted' = [submitted EXCEPT ![s] = instructions[s]]
  /\ created' = [created EXCEPT ![s] = Submit(@, instructions[s])]
  /\ \E code \in StatusCodes : result' = [result EXCEPT ![s] = code]
  /\ applies' = [applies EXCEPT ![s] = @ + 1]
  /\ pc' = [pc EXCEPT ![s] = "echo"]
  /\ UNCHANGED <<node_map, lock, msg, roots, visited, queue, instructions,
                 sent, replies, repeat, prev_ids, calls, processed>>
  /\ UNCHANGED lib

\* an apply whose non-success status ends the task
ApplyChecked(s) ==
  /\ pc[s] = "apply"
  /\ submitted' = [submitted EXCEPT ![s] = instructions[s]]
  /\ created' = [created EXCEPT ![s] = Submit(@, instructions[s])]
  /\ \E code \in StatusCodes :
       /\ result' = [result EXCEPT ![s] = code]
       /\ pc' = [pc EXCEPT ![s] = IF code = 0 THEN "echo" ELSE "panicked"]
  /\ applies' = [applies EXCEPT ![s] = @ + 1]
  /\ lock' = [lock EXCEPT ![s] = FALSE]
  /\ UNCHANGED <<node_map, msg, roots, visited, queue, instructions, sent,
                 replies, repeat, prev_ids, calls, processed>>
  /\ UNCHANGED lib

\* apply_instructions(&instructions.to_string()); the guard is dropped at
\* the end of the statement
Apply(s) ==
  /\ pc[s] = "apply"
  /\ submitted' = [submitted EXCEPT ![s] = instructions[s]]
  /\ created' = [created EXCEPT ![s] = Submit(@, instructions[s])]
  /\ \E code \in StatusCodes : result' = [result EXCEPT ![s] = code]
  /\ applies' = [applies EXCEPT ![s] = @ + 1]
  /\ lock' = [lock EXCEPT ![s] = FALSE]
  /\ pc' = [pc EXCEPT ![s] = "echo"]
  /\ UNCHANGED <<node_map, msg, roots, visited, queue, instructions, sent,
                 replies, repeat, prev_ids,
                 calls, processed>>
  /\ UNCHANGED lib

\* write.send(msg).await.unwrap()
Echo(s) ==
  /\ pc[s] = "echo"
  /\ \/ /\ sent' = [sent EXCEPT ![s] = msg[s]]
        /\ replies' = [replies EXCEPT ![s] = @ + 1]
        /\ pc' = [pc EXCEPT ![s] = "read"]
     \/ /\ pc' = [pc EXCEPT ![s] = "panicked"]
        /\ UNCHANGED <<sent, replies>>
  /\ UNCHANGED <<node_map, lock, msg, roots, visited, queue, instructions,
                 submitted, result, applies, repeat, prev_ids,
                 calls, processed>>
  /\ UNCHANGED created
  /\ UNCHANGED lib

\* a rejection that sends the message back
RejectEchoed(s) ==
  /\ pc[s] = "reject"
  /\ \/ /\ sent' = [sent EXCEPT ![s] = msg[s]]
        /\ replies' = [replies EXCEPT ![s] = @ + 1]
        /\ pc' = [pc EXCEPT ![s] = "read"]
     \/ /\ pc' = [pc EXCEPT ![s] = "panicked"]
        /\ UNCHANGED <<sent, replies>>
  /\ UNCHANGED <<node_map, lock, msg, roots, visited, queue, instructions,
                 submitted, result, applies, repeat, prev_ids,
                 calls, processed>>
  /\ UNCHANGED created
  /\ UNCHANGED lib

\* write.send("No thanks".into()).await.unwrap()
Reject(s) ==
  /\ pc[s] = "reject"
  /\ \/ /\ sent' = [sent EXCEPT ![s] = "No thanks"]
        /\ replies' = [replies EXCEPT ![s] = @ + 1]
        /\ pc' = [pc EXCEPT ![s] = "read"]
     \/ /\ pc' = [pc EXCEPT ![s] = "panicked"]
        /\ UNCHANGED <<sent, replies>>
  /\ UNCHANGED <<node_map, lock, msg, roots, visited, queue, instructions,
                 submitted, result, applies, repeat, prev_ids,
                 calls, processed>>
  /\ UNCHANGED created
  /\ UNCHANGED lib

Handle(s) ==
  \/ ReceiveText(s)
  \/ ReceiveNonText(s)
  \/ ReceiveNone(s)
  \/ ReceiveErr(s)
  \/ Visit(s)
  \/ Finish(s)
  \/ Lock(s)
  \/ Apply(s)
  \/ Echo(s)
  \/ Reject(s)

\* one connection receiving up to MaxCalls directives of at most MaxNodes
\* nodes each, among any number of other messages
Next == \E s \in Conns : ReceiveGraph(s, Graphs, MaxCalls) \/ Handle(s)

Spec == Init /\ [][Next]_vars

\* one connection whose first directive has at most MaxNodesFresh nodes
ReceiveFresh(s) == ReceiveGraph(s, FreshGraphs, 1)

NextFresh == \E s \in Conns : ReceiveFresh(s) \/ Handle(s)

SpecFresh == Init /\ [][NextFresh]_vars

\* one connection that receives one directive and no other message
NextDirective ==
  \E s \in Conns :
    \/ ReceiveFresh(s)
    \/ Visit(s)
    \/ Finish(s)
    \/ Lock(s)
    \/ Apply(s)
    \/ Echo(s)

\* reconcile is a synchronous call: once entered, its loop keeps running
Reconcile == \E s \in Conns : Visit(s) \/ Finish(s)

FairSpecDirective == Init /\ [][NextDirective]_vars /\ WF_vars(Reconcile)

\* three roots: one of MaxNodes - 1 node occurrences, then two of MaxNodes
ThreeRoots ==
  { <<a, b, c>> : a \in Trees(MaxNodes - 1), b \in Trees(MaxNodes),
                  c \in Trees(MaxNodes) }

ReceiveOccurrences(s) == ReceiveGraph(s, FreshGraphs \cup ThreeRoots, 1)

\* one connection that receives one directive, of at most MaxNodesFresh
\* nodes or of three roots, and no other message
NextOccurrences ==
  \E s \in Conns :
    \/ ReceiveOccurrences(s)
    \/ Visit(s)
    \/ Finish(s)
    \/ Lock(s)
    \/ Apply(s)
    \/ Echo(s)

SpecOccurrences == Init /\ [][NextOccurrences]_vars

\* what the task of a connection does without waiting for its peer
Task ==
  \E s \in Conns :
    \/ Visit(s)
    \/ Finish(s)
    \/ Lock(s)
    \/ Apply(s)
    \/ Echo(s)
    \/ Reject(s)

\* the runtime schedules a task that can run
FairSpec == Spec /\ WF_vars(Task)

\* two connections accepted by the listener, each with its own
\* RuntimeWrapper
InitPair == Accepted(2) /\ RuntimeNew

\* most node occurrences in a directive of two concurrent sessions
MaxNodesPair == 1

ReceivePair(s) == ReceiveGraph(s, GraphsUpTo(MaxNodesPair), MaxCalls)

\* two concurrent sessions that receive directives and no other message
NextPair ==
  \E s \in Conns :
    \/ ReceivePair(s)
    \/ Visit(s)
    \/ Finish(s)
    \/ Lock(s)
    \/ Apply(s)
    \/ Echo(s)

SpecPair == InitPair /\ [][NextPair]_vars


(***************************************************************************)
(* elementary/src/lib.rs: Runtime and the shared resource map of its       *)
(* FloatRuntime. No graph is applied to the runtime, so no resource is in  *)
(* use by a node.                                                          *)
(***************************************************************************)
\* most calls made on one Runtime
MaxOps == 4

\* resource names, the name of the tests among them
Names == {"test", "other"}

\* Box<Vec<f32>> values, the one of the tests among them
Buffers == {<<0, 1, 0, 1>>, <<1>>}

\* the names that a node of an applied graph refers to
InUse == {}

\* the outcomes of storing size values of data under name: a free name is
\* taken; a taken name is refused or overwritten
update_shared_resource_map_float(m, name, data, size) ==
  LET put == [map |-> insert(m, name, SubSeq(data, 1, size)), ok |-> TRUE]
  IN IF name \in DOMAIN m THEN {[map |-> m, ok |-> FALSE], put} ELSE {put}

get_shared_resource_map_keys_float(m) == DOMAIN m

\* drops every resource that no node refers to
prune_shared_resource_map_float(m) == [n \in DOMAIN m \cap InUse |-> m[n]]

\* Runtime::update_shared_resource_map: data.as_ptr() and data.len()
update_shared_resource_map(m, name, data) ==
  update_shared_resource_map_float(m, name, data, Len(data))

\* Runtime::get_shared_resources_map_keys
get_shared_resources_map_keys(m) == get_shared_resource_map_keys_float(m)

\* a prune that leaves the runtime alone
prune_shared_resource_map_skipped(m) == m

\* Runtime::prune_shared_resource_map
prune_shared_resource_map(m) == prune_shared_resource_map_float(m)

UpdateSharedResourceMap ==
  /\ Len(history) < MaxOps
  /\ \E name \in Names : \E data \in Buffers :
       \E r \in update_shared_resource_map(shared_resource_map, name, data) :
         /\ shared_resource_map' = r.map
         /\ stored' = r.ok
         /\ history' = Append(history, [call |-> "update", name |-> name, ok |-> r.ok])
  /\ UNCHANGED keys
  /\ UNCHANGED server

GetSharedResourcesMapKeys ==
  /\ Len(history) < MaxOps
  /\ keys' = get_shared_resources_map_keys(shared_resource_map)
  /\ history' = Append(history, [call |-> "keys", name |-> "", ok |-> TRUE])
  /\ UNCHANGED <<shared_resource_map, stored>>
  /\ UNCHANGED server

PruneSharedResourceMap ==
  /\ Len(history) < MaxOps
  /\ shared_resource_map' = prune_shared_resource_map(shared_resource_map)
  /\ history' = Append(history, [call |-> "prune", name |-> "", ok |-> TRUE])
  /\ UNCHANGED <<stored, keys>>
  /\ UNCHANGED server

\* a program that makes up to MaxOps calls on one Runtime
NextRuntime ==
  \/ UpdateSharedResourceMap
  \/ GetSharedResourcesMapKeys
  \/ PruneSharedResourceMap

SpecRuntime == Init /\ [][NextRuntime]_vars

(***************************************************************************)
(* Vocabulary of the properties.                                           *)
(***************************************************************************)

\* reconcile has returned the batch of the directive being handled
Returned(s) == msg[s] = "graph" /\ pc[s] # "loop"

\* the instructions of batch b with opcode op, in the order of b
Only(b, op) ==
  LET Is(i) == i[1] = op
  IN SelectSeq(b, Is)

\* the instructions of b with opcode op whose first payload field is h
OnlyOf(b, op, h) ==
  LET Is(i) == i[1] = op /\ i[2] = h
  IN SelectSeq(b, Is)

\* the APPEND_CHILD instructions of b whose child is c
AppendsTo(b, c) ==
  LET Is(i) == i[1] = APPEND_CHILD /\ i[3] = c
  IN SelectSeq(b, Is)

\* the position of an opcode in CREATE < APPEND_CHILD < SET_PROPERTY <
\* ACTIVATE_ROOTS < COMMIT, 0 for anything else
Class(op) ==
  IF op = CREATE THEN 1
  ELSE IF op = APPEND_CHILD THEN 2
  ELSE IF op = SET_PROPERTY THEN 3
  ELSE IF op = ACTIVATE_ROOTS THEN 4
  ELSE IF op = COMMIT THEN 5
  ELSE 0

\* every occurrence of a hash in the graph carries the same node
Consistent(g) ==
  \A a \in Occurrences(g) : \A b \in Occurrences(g) : a.hash = b.hash => a = b

\* the SET_PROPERTY instructions a node's properties ask for, in map order
SetsOf(n) ==
  [i \in 1..Len(n.props) |-> <<SET_PROPERTY, n.hash, n.props[i][1], n.props[i][2]>>]

(***************************************************************************)
(* C1: whatever the roots (the empty sequence too) and whatever the        *)
(* node_map before the call, the batch reconcile returns consists of       *)
(* CREATEs, then APPEND_CHILDs, then SET_PROPERTYs, then exactly one       *)
(* ACTIVATE_ROOTS, then exactly one COMMIT, which is its last element.     *)
(***************************************************************************)
C1_BatchOrdered ==
  \A s \in Conns :
    Returned(s) =>
      LET b == instructions[s]
      IN /\ \A i \in 1..Len(b) : Class(b[i][1]) # 0
         /\ \A i \in 1..Len(b) : \A j \in 1..Len(b) :
              i < j => Class(b[i][1]) <= Class(b[j][1])
         /\ Len(Only(b, ACTIVATE_ROOTS)) = 1
         /\ Len(Only(b, COMMIT)) = 1
         /\ Len(b) >= 2
         /\ b[Len(b)] = <<COMMIT>>
         /\ b[Len(b) - 1][1] = ACTIVATE_ROOTS

\* a second directive whose first root was mounted by the first directive
\* and whose child was not: SET_PROPERTY is emitted before CREATE
C1_Witness ==
  \E s \in Conns :
    /\ Returned(s)
    /\ calls[s] = 2
    /\ Len(processed[s]) = 2
    /\ Len(Only(instructions[s], CREATE)) = 1
    /\ instructions[s][1][2] = processed[s][2].hash
    /\ Len(Only(instructions[s], SET_PROPERTY)) >= 2

(***************************************************************************)
(* C2: when a directive carries the graph that was reconciled just before *)
(* on the same node_map, the second batch has no CREATE and no            *)
(* APPEND_CHILD, has one SET_PROPERTY for every property of every node     *)
(* reconcile processes (of every node of the graph when each hash names    *)
(* one node), and ends with ACTIVATE_ROOTS and COMMIT.                     *)
(***************************************************************************)
C2_IdempotentRemount ==
  \A s \in Conns :
    (Returned(s) /\ repeat[s]) =>
      LET b == instructions[s]
      IN /\ Only(b, CREATE) = <<>>
         /\ Only(b, APPEND_CHILD) = <<>>
         /\ \A i \in 1..Len(processed[s]) :
              OnlyOf(b, SET_PROPERTY, processed[s][i].hash) = SetsOf(processed[s][i])
         /\ Consistent(roots[s]) =>
              \A n \in Occurrences(roots[s]) :
                OnlyOf(b, SET_PROPERTY, n.hash) = SetsOf(n)
         /\ Len(b) >= 2
         /\ b[Len(b) - 1] = <<ACTIVATE_ROOTS, Hashes(roots[s])>>
         /\ b[Len(b)] = <<COMMIT>>

\* the same parent-and-child graph twice: three or more SET_PROPERTYs
C2_Witness ==
  \E s \in Conns :
    /\ Returned(s)
    /\ repeat[s]
    /\ calls[s] = 2
    /\ Len(roots[s]) = 1
    /\ Len(roots[s][1].children) = 1
    /\ roots[s][1].children[1].hash # roots[s][1].hash
    /\ Len(Only(instructions[s], SET_PROPERTY)) >= 3

(***************************************************************************)
(* C3: on an empty node_map, when two roots of different hashes each list  *)
(* one child of hash c and nothing else lists c, the batch has exactly one *)
(* CREATE for c, exactly one SET_PROPERTY per property of c and exactly    *)
(* two APPEND_CHILDs whose child is c; and whatever the graph, no hash is  *)
(* processed twice in one call.                                            *)
(***************************************************************************)
\* how many children of n have hash c
Lists(n, c) == Cardinality({i \in 1..Len(n.children) : n.children[i].hash = c})

\* g is two roots of different hashes that each list c once, and no node
\* below the roots lists c
SharedChild(g, c) ==
  /\ Len(g) = 2
  /\ g[1].hash # g[2].hash
  /\ Lists(g[1], c) = 1
  /\ Lists(g[2], c) = 1
  /\ \A n \in Occurrences(g[1].children) \cup Occurrences(g[2].children) :
       Lists(n, c) = 0

\* the occurrence of c that comes first in breadth-first order
FirstOf(g, c) ==
  IF g[1].hash = c THEN g[1]
  ELSE IF g[2].hash = c THEN g[2]
  ELSE LET i == CHOOSE k \in 1..Len(g[1].children) : g[1].children[k].hash = c
       IN g[1].children[i]

C3_SharedChildOnce ==
  \A s \in Conns :
    /\ \A i \in 1..Len(processed[s]) : \A j \in 1..Len(processed[s]) :
         processed[s][i].hash = processed[s][j].hash => i = j
    /\ (Returned(s) /\ calls[s] = 1) =>
         \A c \in Ids :
           SharedChild(roots[s], c) =>
             LET b == instructions[s]
             IN /\ OnlyOf(b, CREATE, c) = << <<CREATE, c, FirstOf(roots[s], c).kind>> >>
                /\ OnlyOf(b, SET_PROPERTY, c) = SetsOf(FirstOf(roots[s], c))
                /\ Len(AppendsTo(b, c)) = 2
                /\ \E i \in 1..Len(b) : b[i][1] = APPEND_CHILD /\ b[i][2] = roots[s][1].hash /\ b[i][3] = c
                /\ \E i \in 1..Len(b) : b[i][1] = APPEND_CHILD /\ b[i][2] = roots[s][2].hash /\ b[i][3] = c

\* roots 1 and 2 both list a child 3, with different contents
C3_Witness ==
  \E s \in Conns :
    /\ Returned(s)
    /\ calls[s] = 1
    /\ \E c \in Ids :
         /\ SharedChild(roots[s], c)
         /\ c # roots[s][1].hash
         /\ c # roots[s][2].hash
         /\ roots[s][1].children[1] # roots[s][2].children[1]
         /\ Len(OnlyOf(instructions[s], SET_PROPERTY, c)) >= 1

(***************************************************************************)
(* C4: reconcile terminates on every description, also on one where a      *)
(* descendant carries the hash of a node visited before it: a connection   *)
(* that is in the loop of reconcile leaves it, with the queue empty and    *)
(* with every visited hash, the repeated one included, processed exactly   *)
(* once.                                                                   *)
(***************************************************************************)
\* the connections a specification of this module may start
ConnIds == {1, 2}

InLoop(s) == s \in Conns /\ pc[s] = "loop"

\* how often hash h was taken past the visited check
TimesProcessed(s, h) ==
  Cardinality({i \in 1..Len(processed[s]) : processed[s][i].hash = h})

LoopDone(s) ==
  /\ s \in Conns
  /\ pc[s] = "lock"
  /\ queue[s] = <<>>
  /\ \A i \in 1..Len(roots[s]) : roots[s][i].hash \in visited[s]
  /\ \A h \in visited[s] : TimesProcessed(s, h) = 1
  /\ \A h \in Ids \ visited[s] : TimesProcessed(s, h) = 0

C4_Terminates == \A s \in ConnIds : InLoop(s) ~> LoopDone(s)

\* root, child, grandchild, the grandchild carrying the root's hash
C4_Witness ==
  \E s \in Conns :
    /\ pc[s] = "lock"
    /\ Len(roots[s]) = 1
    /\ Len(roots[s][1].children) = 1
    /\ Len(roots[s][1].children[1].children) = 1
    /\ roots[s][1].children[1].hash # roots[s][1].hash
    /\ roots[s][1].children[1].children[1].hash = roots[s][1].hash
    /\ Len(processed[s]) = 2

(***************************************************************************)
(* C5: the ACTIVATE_ROOTS of a batch lists the hashes of the roots of the  *)
(* directive being reconciled, one per root and in the order supplied,     *)
(* whatever roots an earlier directive of the connection had.              *)
(***************************************************************************)
C5_ActivatesGivenRoots ==
  \A s \in Conns :
    Returned(s) =>
      LET acts == Only(instructions[s], ACTIVATE_ROOTS)
      IN /\ Len(acts) = 1
         /\ Len(acts[1]) = 2
         /\ Len(acts[1][2]) = Len(roots[s])
         /\ \A i \in 1..Len(roots[s]) : acts[1][2][i] = roots[s][i].hash

\* roots [1, 2], then roots [3]: the second batch activates [3]
C5_Witness ==
  \E s \in Conns :
    /\ Returned(s)
    /\ calls[s] = 2
    /\ prev_ids[s] = <<1, 2>>
    /\ Only(instructions[s], ACTIVATE_ROOTS) = << <<ACTIVATE_ROOTS, <<3>> >> >>

(***************************************************************************)
(* C6: the loop iteration that visits a node whose hash is not in          *)
(* node_map pushes CREATE(hash, kind), then one APPEND_CHILD(hash, child   *)
(* hash, child output channel) per child in the order given, then one      *)
(* SET_PROPERTY(hash, name, value) per property, and nothing else; and     *)
(* the single root {1, sine, {freq: 440}} on an empty node_map yields      *)
(* [CREATE(1, sine), SET_PROPERTY(1, freq, 440), ACTIVATE_ROOTS([1]),      *)
(* COMMIT].                                                                *)
(***************************************************************************)
\* what C6 says a first-time mount of n contributes
MountOf(n) ==
  << <<0, n.hash, n.kind>> >>
    \o [k \in 1..Len(n.children) |->
          <<2, n.hash, n.children[k].hash, n.children[k].output_channel>>]
    \o [k \in 1..Len(n.props) |-> <<3, n.hash, n.props[k][1], n.props[k][2]>>]

\* connection s is about to visit a node that is neither visited nor mounted
VisitsUnmounted(s) ==
  /\ pc[s] = "loop"
  /\ queue[s] # <<>>
  /\ Head(queue[s]).hash \notin visited[s]
  /\ Head(queue[s]).hash \notin DOMAIN node_map[s]

SineRoot ==
  << [hash |-> 1, kind |-> "sine", props |-> << <<"freq", 440>> >>,
      output_channel |-> 0, children |-> <<>>] >>

C6_MountContribution ==
  /\ [](\A s \in ConnIds :
          (s \in Conns /\ Returned(s) /\ calls[s] = 1 /\ roots[s] = SineRoot) =>
            instructions[s] =
              << <<0, 1, "sine">>, <<3, 1, "freq", 440>>, <<4, <<1>> >>, <<5>> >>)
  /\ [][\A s \in Conns :
          (VisitsUnmounted(s) /\ visited'[s] # visited[s]) =>
            instructions'[s] = instructions[s] \o MountOf(Head(queue[s]))]_vars

\* the batch of a root with two children on different channels
C6_Witness ==
  \E s \in Conns :
    /\ Returned(s)
    /\ Len(roots[s]) = 1
    /\ Len(roots[s][1].children) = 2
    /\ roots[s][1].children[1].output_channel # roots[s][1].children[2].output_channel
    /\ roots[s][1].children[1].hash # roots[s][1].children[2].hash
    /\ roots[s][1].output_channel # roots[s][1].children[1].output_channel
    /\ Len(Only(instructions[s], APPEND_CHILD)) = 2

(***************************************************************************)
(* C7: the final sort is stable: in the batch of a connection's first     *)
(* directive the CREATEs stand in first-visit order, the APPEND_CHILDs in *)
(* parent-visit order and, for one parent, in child order, and the        *)
(* SET_PROPERTYs in node-visit order, as the traversal pushed them.        *)
(***************************************************************************)
AppendsOf(n) ==
  [k \in 1..Len(n.children) |->
     <<APPEND_CHILD, n.hash, n.children[k].hash, n.children[k].output_channel>>]

C7_StableSort ==
  \A s \in Conns :
    (Returned(s) /\ calls[s] = 1) =>
      LET b == instructions[s]
          p == processed[s]
      IN /\ Only(b, CREATE) = [i \in 1..Len(p) |-> <<CREATE, p[i].hash, p[i].kind>>]
         /\ Only(b, APPEND_CHILD) = Flatten([i \in 1..Len(p) |-> AppendsOf(p[i])])
         /\ Only(b, SET_PROPERTY) = Flatten([i \in 1..Len(p) |-> SetsOf(p[i])])

\* three nodes created, two of them parents, the second with two properties
C7_Witness ==
  \E s \in Conns :
    /\ Returned(s)
    /\ calls[s] = 1
    /\ Len(processed[s]) = 3
    /\ Len(processed[s][1].children) = 1
    /\ Len(processed[s][2].children) = 1
    /\ Len(processed[s][2].props) = 2
    /\ Len(Only(instructions[s], APPEND_CHILD)) = 2

(***************************************************************************)
(* C8: the id list of ACTIVATE_ROOTS is an ordered set: whatever the       *)
(* roots, two roots of the same hash included, no hash stands in it twice. *)
(***************************************************************************)
C8_ActivateRootsIsSet ==
  \A s \in Conns :
    Returned(s) =>
      LET ids == Only(instructions[s], ACTIVATE_ROOTS)[1][2]
      IN \A i \in 1..Len(ids) : \A j \in 1..Len(ids) : ids[i] = ids[j] => i = j

(***************************************************************************)
(* C9: over the reconcile calls of a connection node_map only grows: a     *)
(* hash is inserted when it is first visited, with the shallow projection  *)
(* of the node visited; no entry is removed; and no entry changes, also    *)
(* when a later directive describes its hash differently.                  *)
(***************************************************************************)
\* the MountEntry of node n: its own fields and the hashes of its children
EntryOf(n) ==
  [hash |-> n.hash, kind |-> n.kind, props |-> n.props,
   output_channel |-> n.output_channel,
   children |-> [k \in 1..Len(n.children) |-> n.children[k].hash]]

C9_TableOnlyGrows ==
  /\ [](\A s \in ConnIds : s \in Conns => visited[s] \subseteq DOMAIN node_map[s])
  /\ [][\A s \in Conns :
          /\ \A h \in DOMAIN node_map[s] :
               h \in DOMAIN node_map'[s] /\ node_map'[s][h] = node_map[s][h]
          /\ \A h \in DOMAIN node_map'[s] \ DOMAIN node_map[s] :
               /\ pc[s] = "loop"
               /\ queue[s] # <<>>
               /\ h = Head(queue[s]).hash
               /\ node_map'[s][h] = EntryOf(Head(queue[s]))]_vars

\* a second directive gave a mounted hash another kind and a child
C9_Witness ==
  \E s \in Conns :
    /\ Returned(s)
    /\ calls[s] = 2
    /\ \E i \in 1..Len(processed[s]) :
         LET n == processed[s][i]
         IN /\ node_map[s][n.hash].kind # n.kind
            /\ node_map[s][n.hash].children = <<>>
            /\ n.children # <<>>

(***************************************************************************)
(* C10: a connection handles its messages one after the other: a message   *)
(* is read only while the task waits for one, and by then the message      *)
(* before it, if it carried a graph, was reconciled to the end, its batch  *)
(* was applied exactly once and it was echoed; reconcile changes node_map  *)
(* only inside its own loop, before the apply and before the echo.         *)
(***************************************************************************)
C10_OneMessageAtATime ==
  /\ [](\A s \in ConnIds :
          s \in Conns =>
            /\ pc[s] \in {"loop", "lock", "apply"} =>
                 msg[s] = "graph" /\ applies[s] = 0 /\ replies[s] = 0
            /\ (pc[s] = "echo" /\ msg[s] = "graph") =>
                 /\ applies[s] = 1
                 /\ replies[s] = 0
                 /\ queue[s] = <<>>
                 /\ submitted[s] = instructions[s]
            /\ (pc[s] = "read" /\ msg[s] = "graph") =>
                 /\ applies[s] = 1
                 /\ replies[s] = 1
                 /\ queue[s] = <<>>
                 /\ submitted[s] = instructions[s]
                 /\ sent[s] = "graph")
  /\ [][\A s \in Conns :
          /\ (calls'[s] # calls[s] \/ msg'[s] # msg[s] \/ roots'[s] # roots[s])
               => pc[s] = "read"
          /\ node_map'[s] # node_map[s] => (pc[s] = "loop" /\ pc'[s] = "loop")]_vars

\* the second directive of a connection, reconciled, applied and echoed
C10_Witness ==
  \E s \in Conns :
    /\ pc[s] = "read"
    /\ msg[s] = "graph"
    /\ calls[s] = 2
    /\ applies[s] = 1
    /\ replies[s] = 1
    /\ Len(submitted[s]) > 2
    /\ node_map[s] # EmptyMap

(***************************************************************************)
(* C11: the Mutex of a connection's runtime is held only while its         *)
(* apply_instructions call runs: it is free whenever the task waits for    *)
(* the next inbound message or for a reply to be written, and whenever     *)
(* the task has ended.                                                     *)
(***************************************************************************)
\* the task of s is suspended on the network: on read.try_next().await or
\* on write.send(..).await
Suspended(s) == pc[s] \in {"read", "ended", "echo", "reject"}

C11_LockOnlyDuringApply ==
  \A s \in Conns :
    /\ lock[s] => pc[s] = "apply"
    /\ Suspended(s) => ~lock[s]
    /\ pc[s] \in {"closed", "panicked"} => ~lock[s]

\* the echo of a directive is pending, after an apply that took the lock
C11_Witness ==
  \E s \in Conns :
    /\ pc[s] = "echo"
    /\ msg[s] = "graph"
    /\ applies[s] = 1
    /\ Len(submitted[s]) > 2
    /\ ~lock[s]

(***************************************************************************)
(* C12: node_map is partitioned per connection. Under every interleaving   *)
(* of two sessions: a step of one session changes nothing of the other     *)
(* (its node_map, its reconcile, its batch); what a visit emits is decided *)
(* by the session's own node_map; a session that has received no directive *)
(* has an empty node_map, and after its first directive its node_map holds *)
(* exactly the hashes it visited and its batch CREATEs each of them,       *)
(* whatever the other session mounted; two sessions whose first directive  *)
(* is the same graph return the same batch.                                *)
(***************************************************************************)
\* the step changes something of the task of connection t
Acts(t) ==
  \/ pc'[t] # pc[t]
  \/ queue'[t] # queue[t]
  \/ visited'[t] # visited[t]
  \/ msg'[t] # msg[t]
  \/ calls'[t] # calls[t]

\* the step leaves the session of connection s as it is
Untouched(s) ==
  /\ node_map'[s] = node_map[s]
  /\ instructions'[s] = instructions[s]
  /\ visited'[s] = visited[s]
  /\ queue'[s] = queue[s]
  /\ processed'[s] = processed[s]
  /\ submitted'[s] = submitted[s]
  /\ created'[s] = created[s]
  /\ lock'[s] = lock[s]
  /\ pc'[s] = pc[s]

\* the hashes of a sequence of nodes
HashSet(nodes) == {nodes[i].hash : i \in 1..Len(nodes)}

C12_PartitionedPerConnection ==
  /\ [](\A s \in ConnIds :
          s \in Conns =>
            /\ calls[s] = 0 => node_map[s] = EmptyMap
            /\ calls[s] = 1 => DOMAIN node_map[s] = HashSet(processed[s])
            /\ (calls[s] = 1 /\ Returned(s)) =>
                 Only(instructions[s], CREATE) =
                   [i \in 1..Len(processed[s]) |->
                      <<CREATE, processed[s][i].hash, processed[s][i].kind>>]
            /\ \A u \in Conns :
                 (/\ calls[s] = 1
                  /\ calls[u] = 1
                  /\ Returned(s)
                  /\ Returned(u)
                  /\ roots[s] = roots[u]) => instructions[s] = instructions[u])
  /\ [][\A s \in Conns :
          /\ \A u \in Conns \ {s} : Acts(u) => Untouched(s)
          /\ (pc[s] = "loop" /\ visited'[s] # visited[s]) =>
               LET next == Head(queue[s])
               IN instructions'[s] =
                    instructions[s]
                      \o (IF next.hash \in DOMAIN node_map[s] THEN <<>>
                          ELSE << <<CREATE, next.hash, next.kind>> >>
                                 \o AppendsOf(next))
                      \o SetsOf(next)]_vars

\* connection 1 is sent a graph for the second time and connection 2 for
\* the first time, while both reconcile: 1 returns no CREATE and 2 returns one
C12_Witness ==
  /\ Conns = {1, 2}
  /\ calls[1] = 2
  /\ calls[2] = 1
  /\ repeat[1]
  /\ roots[1] = roots[2]
  /\ roots[1] # <<>>
  /\ pc[1] = "lock"
  /\ pc[2] = "lock"
  /\ Only(instructions[1], CREATE) = <<>>
  /\ Len(Only(instructions[2], CREATE)) = 1

(***************************************************************************)
(* C13: a text message that does not parse as a directive, or whose        *)
(* directive has no graph, is handled as a directive without a graph: the  *)
(* step that reads it goes straight to the echo and neither it nor the     *)
(* echo calls reconcile, applies a batch or changes node_map; the reply    *)
(* that is written is the message itself; and with the reply written the   *)
(* task is back at reading the next message.                               *)
(***************************************************************************)
\* the step is the read of a message by connection s: it leaves the wait
\* for a message and does not end the loop
Reads(s) == pc[s] = "read" /\ pc'[s] \notin {"read", "ended", "closed"}

\* the step leaves what reconcile and apply work on as it is
NoReconcile(s) ==
  /\ node_map'[s] = node_map[s]
  /\ calls'[s] = calls[s]
  /\ instructions'[s] = instructions[s]
  /\ visited'[s] = visited[s]
  /\ created'[s] = created[s]
  /\ lock'[s] = lock[s]

C13_NoGraphIsNoOp ==
  /\ [](\A s \in ConnIds :
          (s \in Conns /\ msg[s] \in Texts) =>
            /\ applies[s] = 0
            /\ submitted[s] = <<>>
            /\ pc[s] \in {"echo", "read", "ended", "closed", "panicked"}
            /\ pc[s] = "echo" => (replies[s] = 0 /\ sent[s] = "none")
            /\ pc[s] \in {"read", "ended", "closed"} =>
                 (replies[s] = 1 /\ sent[s] = msg[s]))
  /\ [][\A s \in Conns :
          /\ (Reads(s) /\ msg'[s] \in Texts) =>
               (pc'[s] = "echo" /\ NoReconcile(s))
          /\ (msg[s] \in Texts /\ pc[s] = "echo" /\ pc'[s] # "echo") =>
               /\ NoReconcile(s)
               /\ pc'[s] \in {"read", "panicked"}
               /\ pc'[s] = "read" => (sent'[s] = msg[s] /\ applies'[s] = 0)]_vars

\* after a directive mounted a node, a text that is no JSON was echoed and
\* the task reads again, the node still mounted
C13_Witness ==
  \E s \in Conns :
    /\ pc[s] = "read"
    /\ msg[s] = "garbage"
    /\ sent[s] = "garbage"
    /\ replies[s] = 1
    /\ calls[s] = 1
    /\ node_map[s] # EmptyMap

(***************************************************************************)
(* C14: a message that is no text is answered with the fixed text          *)
(* "No thanks": the step that reads it and the reply call no reconcile,    *)
(* apply no batch and leave node_map as it is, and with the reply written  *)
(* the task is back at reading the next message.                           *)
(***************************************************************************)
C14_NonTextRejected ==
  /\ [](\A s \in ConnIds :
          (s \in Conns /\ msg[s] = "nontext") =>
            /\ applies[s] = 0
            /\ submitted[s] = <<>>
            /\ pc[s] \in {"reject", "read", "ended", "closed", "panicked"}
            /\ pc[s] = "reject" => (replies[s] = 0 /\ sent[s] = "none")
            /\ pc[s] \in {"read", "ended", "closed"} =>
                 (replies[s] = 1 /\ sent[s] = "No thanks"))
  /\ [][\A s \in Conns :
          /\ (Reads(s) /\ msg'[s] = "nontext") =>
               (pc'[s] = "reject" /\ NoReconcile(s))
          /\ (pc[s] = "reject" /\ pc'[s] # "reject") =>
               /\ NoReconcile(s)
               /\ pc'[s] \in {"read", "panicked"}
               /\ pc'[s] = "read" =>
                    (sent'[s] = "No thanks" /\ applies'[s] = 0)]_vars

\* after a directive mounted a node, a message that is no text was rejected
\* and the task reads again, the node still mounted
C14_Witness ==
  \E s \in Conns :
    /\ pc[s] = "read"
    /\ msg[s] = "nontext"
    /\ sent[s] = "No thanks"
    /\ replies[s] = 1
    /\ calls[s] = 1
    /\ node_map[s] # EmptyMap

(***************************************************************************)
(* C15: what apply_instructions returns changes nothing but the log line:  *)
(* after a non-success status as after success the batch is not applied    *)
(* again, nothing but the echo of the message goes to the client, the task *)
(* goes on to the echo and then to reading, and node_map keeps the entries *)
(* reconcile inserted, so that the same graph sent next has no CREATE.     *)
(***************************************************************************)
C15_ApplyFailureOnlyLogged ==
  /\ [](\A s \in ConnIds :
          (s \in Conns /\ msg[s] = "graph") =>
            /\ pc[s] = "echo" =>
                 (applies[s] = 1 /\ replies[s] = 0 /\ sent[s] = "none")
            /\ pc[s] = "read" =>
                 (applies[s] = 1 /\ replies[s] = 1 /\ sent[s] = "graph")
            /\ pc[s] \in {"echo", "read"} =>
                 HashSet(processed[s]) \subseteq DOMAIN node_map[s]
            /\ (Returned(s) /\ repeat[s]) =>
                 Only(instructions[s], CREATE) = <<>>)
  /\ [][\A s \in Conns :
          /\ (pc[s] = "apply" /\ pc'[s] # "apply") =>
               /\ pc'[s] = "echo"
               /\ node_map'[s] = node_map[s]
               /\ sent'[s] = sent[s]
               /\ replies'[s] = replies[s]
               /\ applies'[s] = applies[s] + 1
          /\ (msg[s] = "graph" /\ pc[s] = "echo" /\ pc'[s] # "echo") =>
               /\ node_map'[s] = node_map[s]
               /\ applies'[s] = applies[s]
               /\ pc'[s] \in {"read", "panicked"}
               /\ pc'[s] = "read" => sent'[s] = msg[s]]_vars

\* the apply of the first directive failed, the directive was echoed, and
\* the same graph sent again is reconciled without a CREATE
C15_Witness ==
  \E s \in Conns :
    /\ pc[s] = "lock"
    /\ calls[s] = 2
    /\ result[s] = 1
    /\ repeat[s]
    /\ roots[s] # <<>>
    /\ Only(instructions[s], CREATE) = <<>>
    /\ Len(Only(instructions[s], SET_PROPERTY)) >= 1

(***************************************************************************)
(* C16: however the inbound stream of a connection ends, by a read error   *)
(* or by running out with no further message, the task eventually leaves   *)
(* its message loop: the session is Closed and its RuntimeWrapper, the     *)
(* runtime and node_map with it, is dropped.                               *)
(***************************************************************************)
\* the inbound stream of s is over: try_next() has yielded Err or Ok(None)
StreamOver(s) == s \in Conns /\ pc[s] \in {"ended", "closed"}

\* accept_connection has left the while loop and returned
Closed(s) == s \in Conns /\ pc[s] = "closed"

C16_EventuallyClosed == \A s \in ConnIds : StreamOver(s) ~> Closed(s)

(***************************************************************************)
(* C17: on a Runtime to which no graph was applied, a name stored by an    *)
(* update_shared_resource_map that returned true is among the keys that    *)
(* get_shared_resources_map_keys returns, as long as                       *)
(* prune_shared_resource_map was not called since; and the keys returned   *)
(* right after prune_shared_resource_map are none.                         *)
(***************************************************************************)
\* the index of the last prune among the calls h, 0 when there is none
LastPrune(h) ==
  LET at == {i \in 1..Len(h) : h[i].call = "prune"}
  IN IF at = {} THEN 0 ELSE CHOOSE i \in at : \A j \in at : j <= i

\* the names stored with success since the last prune
Held(h) ==
  {h[i].name : i \in {j \in (LastPrune(h) + 1)..Len(h) :
                        h[j].call = "update" /\ h[j].ok}}

C18_MountedParentNotRewired ==
  /\ [](\A s \in ConnIds :
          (s \in Conns /\ Returned(s)) =>
            \A i \in 1..Len(processed[s]) :
              LET n == processed[s][i]
                  b == instructions[s]
              IN OnlyOf(b, CREATE, n.hash) = <<>> =>
                   /\ OnlyOf(b, APPEND_CHILD, n.hash) = <<>>
                   /\ OnlyOf(b, SET_PROPERTY, n.hash) = SetsOf(n)
                   /\ HashSet(n.children) \subseteq visited[s])
  /\ [][\A s \in Conns :
          (/\ pc[s] = "loop"
           /\ visited'[s] # visited[s]
           /\ Head(queue[s]).hash \in DOMAIN node_map[s]) =>
            /\ instructions'[s] = instructions[s] \o SetsOf(Head(queue[s]))
            /\ queue'[s] = Tail(queue[s]) \o Head(queue[s]).children
            /\ node_map'[s] = node_map[s]]_vars

\* a node mounted without children comes again with a child that is new:
\* the child is CREATEd and the batch has no APPEND_CHILD
C18_Witness ==
  \E s \in Conns :
    /\ Returned(s)
    /\ calls[s] = 2
    /\ Len(roots[s]) = 1
    /\ Len(roots[s][1].children) = 1
    /\ node_map[s][roots[s][1].hash].children = <<>>
    /\ OnlyOf(instructions[s], CREATE, roots[s][1].hash) = <<>>
    /\ Len(OnlyOf(instructions[s], CREATE, roots[s][1].children[1].hash)) = 1
    /\ Only(instructions[s], APPEND_CHILD) = <<>>

(***************************************************************************)
(* C19: over the batches a connection passes to apply_instructions, in     *)
(* order: every hash that an APPEND_CHILD names as parent or child, that a *)
(* SET_PROPERTY names, or that ACTIVATE_ROOTS lists has exactly one CREATE *)
(* and that CREATE stands before it, in the same batch or in an earlier    *)
(* one; no hash has two CREATEs.                                           *)
(***************************************************************************)
\* the hashes instruction i refers to without creating them
Refs(i) ==
  IF i[1] = APPEND_CHILD THEN {i[2], i[3]}
  ELSE IF i[1] = SET_PROPERTY THEN {i[2]}
  ELSE IF i[1] = ACTIVATE_ROOTS THEN {i[2][k] : k \in 1..Len(i[2])}
  ELSE {}

C19_CreatedOnceBeforeUse ==
  /\ [](\A s \in ConnIds : s \in Conns => \A h \in Ids : created[s][h] <= 1)
  /\ [][\A s \in Conns :
          (pc[s] = "apply" /\ pc'[s] # "apply") =>
            LET b == submitted'[s]
            IN /\ b = instructions[s]
               /\ \A i \in 1..Len(b) : \A h \in Refs(b[i]) :
                    /\ created'[s][h] = 1
                    /\ \/ created[s][h] = 1
                       \/ \E j \in 1..(i - 1) : b[j][1] = CREATE /\ b[j][2] = h]_vars

\* a second batch that CREATEs a parent and wires to it a child that the
\* first batch created
C19_Witness ==
  \E s \in Conns :
    /\ pc[s] = "echo"
    /\ calls[s] = 2
    /\ applies[s] = 1
    /\ \E i \in 1..Len(submitted[s]) :
         /\ submitted[s][i][1] = APPEND_CHILD
         /\ submitted[s][i][2] # submitted[s][i][3]
         /\ Len(OnlyOf(submitted[s], CREATE, submitted[s][i][2])) = 1
         /\ OnlyOf(submitted[s], CREATE, submitted[s][i][3]) = <<>>

(***************************************************************************)
(* C20: when a hash occurs more than once in a directive, with different   *)
(* content, the occurrence that comes first in breadth-first order (the    *)
(* roots in the order given, then level by level, the subtree of a skipped *)
(* occurrence left out) alone decides the CREATE kind, the APPEND_CHILDs   *)
(* of that parent, the SET_PROPERTYs, the node_map entry and the children  *)
(* that are queued; a later occurrence is skipped with its subtree, so a   *)
(* hash found only below a later occurrence is not visited.                *)
(***************************************************************************)
RECURSIVE KeepFirst(_, _)
\* the nodes of one level whose hash is not in seen and not carried by a node
\* to their left, in order
KeepFirst(level, seen) ==
  IF level = <<>> THEN <<>>
  ELSE IF Head(level).hash \in seen THEN KeepFirst(Tail(level), seen)
  ELSE <<Head(level)>> \o KeepFirst(Tail(level), seen \cup {Head(level).hash})

RECURSIVE BreadthFirst(_, _)
\* the first occurrences of the hashes of a graph, level by level
BreadthFirst(level, seen) ==
  IF level = <<>> THEN <<>>
  ELSE LET kept == KeepFirst(level, seen)
       IN kept \o BreadthFirst(Flatten([i \in 1..Len(kept) |-> kept[i].children]),
                               seen \cup HashSet(kept))

====
